---- MODULE Spec2Model ----
(***************************************************************************)
(* Model of alarm_numpy.py: the audio callback (RMS, threshold, cooldown), *)
(* the play_beep threads it starts, the data_queue between callback and    *)
(* emit_data, the socket.io broadcast to the connected clients, and the    *)
(* stream shutdown.                                                        *)
(*                                                                         *)
(* Units: time is counted in whole seconds (time.time()), rms in           *)
(* hundredths (THRESHOLD 0.05 is 5, rms 0.10 is 10).                       *)
(***************************************************************************)
EXTENDS Integers, Sequences, FiniteSets, TLC

\* ---------------------------------------------------------------- settings
THRESHOLD == 5
BLOCK_SECONDS == 1
COOLDOWN == 2
TONES == 3
QueueMaxsize == 0

\* ------------------------------------------------------------------ bounds
\* time.time() when the program starts; the real value is the epoch time,
\* far larger than COOLDOWN, so the first loud block always triggers.
StartTime == 3
MaxTime == 6
MaxBlocks == 3
ScenarioBlocks == 10
MaxDevices == 2

\* loudness below, at and above the threshold (0.01, 0.05, 0.10)
RmsValues == {THRESHOLD - 4, THRESHOLD, 2 * THRESHOLD}
ScenarioRms == 2 * THRESHOLD
Clients == {"c1"}
NoData == [id |-> 0, rms |-> 0, alarm |-> FALSE]

VARIABLES
    now,             \* the value time.time() returns
    stream_active,   \* the InputStream is started and not yet stopped
    devices,         \* max_input_channels of each device of sd.query_devices()
    device_index,    \* DEVICE_INDEX: <<>> for None, <<i>> for index i
    default_input,   \* sd.default.device[0]; -1 when there is none
    selected_device, \* outcome of select_device()
    last_beep_time,  \* global last_beep_time
    beep_playing,    \* global beep_playing
    thread_pc,       \* position of each play_beep thread
    tone,            \* loop index of each play_beep thread
    data_queue,      \* data_queue, oldest first
    emit_pc,         \* position of emit_data
    data,            \* emit_data's local `data`
    subscribers,     \* socket.io clients connected now
    received,        \* events each connected client got since it connected
    blocks,          \* number of blocks callback has handled
    alerts,          \* history: block and time of every trigger
    emitted,         \* history: every event socketio.emit sent
    status_seen,     \* history: callback was called with a non-empty status
    reg_published,   \* history: blocks when the client connected
    reg_emitted      \* history: highest sample id emitted when it connected

startup == <<devices, device_index, default_input, selected_device>>

vars == <<now, stream_active, startup, last_beep_time, beep_playing,
          thread_pc, tone,
          data_queue, emit_pc, data, subscribers, received, blocks,
          alerts, emitted, status_seen, reg_published,
          reg_emitted>>

actuator == <<beep_playing, thread_pc, tone>>
hub == <<data_queue, emit_pc, data, emitted>>
clients == <<subscribers, received, reg_published, reg_emitted>>
decider == <<last_beep_time, alerts>>
capture == <<blocks, status_seen>>

\* ----------------------------------------------------------------- helpers
RECURSIVE MaxId(_)
MaxId(evs) ==
    IF evs = <<>> THEN 0
    ELSE LET m == MaxId(Tail(evs))
         IN IF Head(evs).id > m THEN Head(evs).id ELSE m

RmsUpdates(evs) == SelectSeq(evs, LAMBDA e : e.event = "rms_update")

\* queue.Queue(): put appends; maxsize 0 means the queue never refuses.
QueueFull(q) == QueueMaxsize > 0 /\ Len(q) >= QueueMaxsize
QueuePutIfQuiet(q, item) == IF item.alarm THEN q ELSE Append(q, item)

\* line 151: data_queue.put
QueuePut(q, item) == Append(q, item)

QueueGetLifo(q) == [item |-> q[Len(q)], rest |-> SubSeq(q, 1, Len(q) - 1)]

QueueGetPeek(q) == [item |-> Head(q), rest |-> q]

\* queue.Queue.get: removes and returns the oldest item.
QueueGet(q) == [item |-> Head(q), rest |-> Tail(q)]

SampleOfGe(id, rms) == [id |-> id, rms |-> rms, alarm |-> rms >= THRESHOLD]

\* line 151: the dict callback puts on data_queue.
SampleOf(id, rms) == [id |-> id, rms |-> rms, alarm |-> rms > THRESHOLD]

ExceedsAny(rms) == rms > 0

ExceedsGe(rms) == rms >= THRESHOLD

\* line 152
Exceeds(rms) == rms > THRESHOLD

CooldownElapsedAlways(t, last) == TRUE

CooldownElapsedGe(t, last) == t - last >= COOLDOWN

\* line 155
CooldownElapsed(t, last) == t - last > COOLDOWN

\* socketio.emit: a broadcast to the clients connected at that moment.
Broadcast(rcv, ev) ==
    [c \in Clients |-> IF c \in subscribers THEN Append(rcv[c], ev) ELSE rcv[c]]

\* ----------------------------------------------------------- select_device
\* Python's devices[i]: positions count from 0, a negative i counts from the
\* end, anything else raises IndexError.
PyInRange(devs, i) == -Len(devs) <= i /\ i < Len(devs)
PyItem(devs, i) == IF i >= 0 THEN devs[i + 1] ELSE devs[Len(devs) + i + 1]

Return(i) == [kind |-> "return", index |-> i]
Raise(e) == [kind |-> e, index |-> 0]
Pending == [kind |-> "pending", index |-> 0]

\* lines 186-190
FirstInput(devs) ==
    LET ins == {i \in 1..Len(devs) : devs[i] > 0}
    IN  IF ins = {} THEN Raise("ValueError")
        ELSE Return((CHOOSE i \in ins : \A j \in ins : i <= j) - 1)

\* lines 182-185
DefaultInput(devs, dflt) ==
    IF ~PyInRange(devs, dflt) THEN Raise("IndexError")
    ELSE IF PyItem(devs, dflt) > 0 THEN Return(dflt)
    ELSE FirstInput(devs)

\* lines 175-190
select_device(devs, idx, dflt) ==
    IF idx = <<>> THEN DefaultInput(devs, dflt)
    ELSE IF ~(idx[1] < Len(devs)) THEN DefaultInput(devs, dflt)
    ELSE IF ~PyInRange(devs, idx[1]) THEN Raise("IndexError")
    ELSE IF PyItem(devs, idx[1]) > 0 THEN Return(idx[1])
    ELSE DefaultInput(devs, dflt)

\* the program as shipped, on a machine with one microphone
Running ==
    /\ devices = <<1>>
    /\ device_index = <<>>
    /\ default_input = 0
    /\ selected_device = select_device(devices, device_index, default_input)
    /\ stream_active = TRUE

Init ==
    /\ now = StartTime
    /\ Running
    /\ last_beep_time = 0
    /\ beep_playing = FALSE
    /\ thread_pc = <<>>
    /\ tone = <<>>
    /\ data_queue = <<>>
    /\ emit_pc = "get"
    /\ data = NoData
    /\ subscribers = {}
    /\ received = [c \in Clients |-> <<>>]
    /\ blocks = 0
    /\ alerts = <<>>
    /\ emitted = <<>>
    /\ status_seen = FALSE
    /\ reg_published = [c \in Clients |-> 0]
    /\ reg_emitted = [c \in Clients |-> 0]

\* ------------------------------------------------------------------- clock
Tick ==
    /\ now < MaxTime
    /\ now' = now + 1
    /\ UNCHANGED <<stream_active, startup, actuator, hub, clients, decider, capture>>

\* ---------------------------------------------------------------- callback
CallbackBodyInline(rms, status, d) ==
    LET id == blocks + 1
        t1 == now
        t2 == now + d
        trigger == Exceeds(rms) /\ CooldownElapsed(t1, last_beep_time)
    IN  /\ stream_active
        /\ \A t \in DOMAIN thread_pc : thread_pc[t] \in {"returned", "done"}
        /\ ~QueueFull(data_queue)
        /\ blocks' = id
        /\ status_seen' = (status_seen \/ status)
        /\ data_queue' = QueuePut(data_queue, SampleOf(id, rms))
        /\ now' = t2
        /\ IF trigger
           THEN /\ last_beep_time' = t2
                /\ alerts' = Append(alerts, [block |-> id, time |-> t2])
                /\ thread_pc' = Append(thread_pc, "check")
                /\ tone' = Append(tone, 0)
           ELSE UNCHANGED <<last_beep_time, alerts, thread_pc, tone>>
        /\ UNCHANGED <<stream_active, startup, beep_playing, emit_pc, data, emitted,
                       clients>>

CallbackBodyNoStamp(rms, status, d) ==
    LET id == blocks + 1
        t1 == now
        t2 == now + d
        trigger == Exceeds(rms) /\ CooldownElapsed(t1, last_beep_time)
    IN  /\ stream_active
        /\ ~QueueFull(data_queue)
        /\ blocks' = id
        /\ status_seen' = (status_seen \/ status)
        /\ data_queue' = QueuePut(data_queue, SampleOf(id, rms))
        /\ now' = t2
        /\ IF trigger
           THEN /\ alerts' = Append(alerts, [block |-> id, time |-> t2])
                /\ thread_pc' = Append(thread_pc, "check")
                /\ tone' = Append(tone, 0)
           ELSE UNCHANGED <<alerts, thread_pc, tone>>
        /\ UNCHANGED <<last_beep_time, stream_active, startup, beep_playing, emit_pc,
                       data, emitted, clients>>

\* One call of callback for a block of loudness rms. status is the stream's
\* status argument; d is the time that passes between the two readings of
\* time.time() (lines 155 and 156).
CallbackBody(rms, status, d) ==
    LET id == blocks + 1
        t1 == now
        t2 == now + d
        trigger == Exceeds(rms) /\ CooldownElapsed(t1, last_beep_time)
    IN  /\ stream_active
        /\ ~QueueFull(data_queue)
        /\ blocks' = id
        /\ status_seen' = (status_seen \/ status)
        /\ data_queue' = QueuePut(data_queue, SampleOf(id, rms))
        /\ now' = t2
        /\ IF trigger
           THEN /\ last_beep_time' = t2
                /\ alerts' = Append(alerts, [block |-> id, time |-> t2])
                /\ thread_pc' = Append(thread_pc, "check")
                /\ tone' = Append(tone, 0)
           ELSE UNCHANGED <<last_beep_time, alerts, thread_pc, tone>>
        /\ UNCHANGED <<stream_active, startup, beep_playing, emit_pc, data, emitted,
                       clients>>

Callback(rms, status, d) ==
    /\ blocks < MaxBlocks
    /\ now + d <= MaxTime
    /\ CallbackBody(rms, status, d)

\* --------------------------------------------------------------- play_beep
PlayBeepCheckInTry(t) ==
    /\ t \in DOMAIN thread_pc
    /\ thread_pc[t] = "check"
    /\ thread_pc' = [thread_pc EXCEPT ![t] = IF beep_playing THEN "finally" ELSE "set"]
    /\ UNCHANGED <<now, stream_active, startup, beep_playing, tone, hub, clients,
                   decider, capture>>

\* lines 24-25: the test of beep_playing; the return of line 25 is outside
\* the try statement, so no finally clause runs for it.
PlayBeepCheck(t) ==
    /\ t \in DOMAIN thread_pc
    /\ thread_pc[t] = "check"
    /\ thread_pc' = [thread_pc EXCEPT ![t] = IF beep_playing THEN "returned" ELSE "set"]
    /\ UNCHANGED <<now, stream_active, startup, beep_playing, tone, hub, clients,
                   decider, capture>>

\* lines 26-30
PlayBeepSet(t) ==
    /\ t \in DOMAIN thread_pc
    /\ thread_pc[t] = "set"
    /\ beep_playing' = TRUE
    /\ thread_pc' = [thread_pc EXCEPT ![t] = "tone"]
    /\ UNCHANGED <<now, stream_active, startup, tone, hub, clients, decider, capture>>

PlayBeepToneNoFinally(t, raises) ==
    /\ t \in DOMAIN thread_pc
    /\ thread_pc[t] = "tone"
    /\ IF raises
       THEN /\ thread_pc' = [thread_pc EXCEPT ![t] = "done"]
            /\ UNCHANGED tone
       ELSE /\ tone' = [tone EXCEPT ![t] = @ + 1]
            /\ thread_pc' = [thread_pc EXCEPT ![t] =
                                IF tone[t] + 1 = TONES THEN "finally" ELSE "tone"]
    /\ UNCHANGED <<now, stream_active, startup, beep_playing, hub, clients, decider,
                   capture>>

\* lines 31-38: one iteration of the loop (play, wait, sleep); tone[t] counts
\* the tones played. raises is sd.play / sd.wait raising: the except clause
\* logs it and the finally clause runs next, as it does after the third tone.
PlayBeepTone(t, raises) ==
    /\ t \in DOMAIN thread_pc
    /\ thread_pc[t] = "tone"
    /\ IF raises
       THEN /\ thread_pc' = [thread_pc EXCEPT ![t] = "finally"]
            /\ UNCHANGED tone
       ELSE /\ tone' = [tone EXCEPT ![t] = @ + 1]
            /\ thread_pc' = [thread_pc EXCEPT ![t] =
                                IF tone[t] + 1 = TONES THEN "finally" ELSE "tone"]
    /\ UNCHANGED <<now, stream_active, startup, beep_playing, hub, clients, decider,
                   capture>>

\* lines 39-40
PlayBeepFinally(t) ==
    /\ t \in DOMAIN thread_pc
    /\ thread_pc[t] = "finally"
    /\ beep_playing' = FALSE
    /\ thread_pc' = [thread_pc EXCEPT ![t] = "done"]
    /\ UNCHANGED <<now, stream_active, startup, tone, hub, clients, decider, capture>>

PlayBeep(t) ==
    \/ PlayBeepCheck(t)
    \/ PlayBeepSet(t)
    \/ \E raises \in BOOLEAN : PlayBeepTone(t, raises)
    \/ PlayBeepFinally(t)

\* --------------------------------------------------------------- emit_data
EmitRmsUpdateUncaught(fails) ==
    /\ emit_pc = "get"
    /\ data_queue # <<>>
    /\ LET g == QueueGet(data_queue)
           ev == [event |-> "rms_update", id |-> g.item.id, rms |-> g.item.rms]
       IN  /\ data_queue' = g.rest
           /\ IF fails
              THEN /\ UNCHANGED <<emitted, received>>
                   /\ emit_pc' = "dead"
                   /\ data' = NoData
              ELSE /\ emitted' = Append(emitted, ev)
                   /\ received' = Broadcast(received, ev)
                   /\ IF g.item.alarm
                      THEN emit_pc' = "alarm" /\ data' = g.item
                      ELSE emit_pc' = "get" /\ data' = NoData
    /\ UNCHANGED <<now, stream_active, startup, actuator, decider, capture,
                   subscribers, reg_published, reg_emitted>>

EmitRmsUpdateGoesOn(fails) ==
    /\ emit_pc = "get"
    /\ data_queue # <<>>
    /\ LET g == QueueGet(data_queue)
           ev == [event |-> "rms_update", id |-> g.item.id, rms |-> g.item.rms]
       IN  /\ data_queue' = g.rest
           /\ IF fails
              THEN /\ UNCHANGED <<emitted, received>>
                   /\ IF g.item.alarm
                      THEN emit_pc' = "alarm" /\ data' = g.item
                      ELSE emit_pc' = "get" /\ data' = NoData
              ELSE /\ emitted' = Append(emitted, ev)
                   /\ received' = Broadcast(received, ev)
                   /\ IF g.item.alarm
                      THEN emit_pc' = "alarm" /\ data' = g.item
                      ELSE emit_pc' = "get" /\ data' = NoData
    /\ UNCHANGED <<now, stream_active, startup, actuator, decider, capture,
                   subscribers, reg_published, reg_emitted>>

\* lines 164-166: take the oldest sample and emit its rms_update; fails is
\* socketio.emit raising, which line 171 catches and the loop goes on.
EmitRmsUpdate(fails) ==
    /\ emit_pc = "get"
    /\ data_queue # <<>>
    /\ LET g == QueueGet(data_queue)
           ev == [event |-> "rms_update", id |-> g.item.id, rms |-> g.item.rms]
       IN  /\ data_queue' = g.rest
           /\ IF fails
              THEN /\ UNCHANGED <<emitted, received, emit_pc>>
                   /\ data' = NoData
              ELSE /\ emitted' = Append(emitted, ev)
                   /\ received' = Broadcast(received, ev)
                   /\ IF g.item.alarm
                      THEN emit_pc' = "alarm" /\ data' = g.item
                      ELSE emit_pc' = "get" /\ data' = NoData
    /\ UNCHANGED <<now, stream_active, startup, actuator, decider, capture,
                   subscribers, reg_published, reg_emitted>>

\* lines 164 and 169-170: nothing arrived within the timeout; queue.Empty is
\* passed over and the loop goes round.
EmitTimeout ==
    /\ emit_pc = "get"
    /\ data_queue = <<>>
    /\ UNCHANGED vars

\* lines 167-168
EmitAlarm(fails) ==
    /\ emit_pc = "alarm"
    /\ LET ev == [event |-> "alarm", id |-> data.id, rms |-> data.rms]
       IN  IF fails
           THEN UNCHANGED <<emitted, received>>
           ELSE /\ emitted' = Append(emitted, ev)
                /\ received' = Broadcast(received, ev)
    /\ emit_pc' = "get"
    /\ data' = NoData
    /\ UNCHANGED <<now, stream_active, startup, actuator, decider, capture,
                   data_queue, subscribers, reg_published, reg_emitted>>

\* ----------------------------------------------------------------- clients
\* A browser opens the socket.io connection (line 114 of the page).
Connect(c) ==
    /\ c \notin subscribers
    /\ subscribers' = subscribers \cup {c}
    /\ received' = [received EXCEPT ![c] = <<>>]
    /\ reg_published' = [reg_published EXCEPT ![c] = blocks]
    /\ reg_emitted' = [reg_emitted EXCEPT ![c] = MaxId(RmsUpdates(emitted))]
    /\ UNCHANGED <<now, stream_active, startup, actuator, hub, decider, capture>>

Disconnect(c) ==
    /\ c \in subscribers
    /\ subscribers' = subscribers \ {c}
    /\ UNCHANGED <<now, stream_active, startup, actuator, hub, decider, capture,
                   received, reg_published, reg_emitted>>

\* ----------------------------------------------------------------- startup
\* line 204
SelectDevice ==
    /\ selected_device = Pending
    /\ selected_device' = select_device(devices, device_index, default_input)
    /\ UNCHANGED <<now, stream_active, devices, device_index, default_input,
                   actuator, hub, clients, decider, capture>>

\* ---------------------------------------------------------------- shutdown
\* lines 218-225: KeyboardInterrupt ends socketio.run; the stream is stopped
\* and closed, so callback is not called again.
Stop ==
    /\ stream_active
    /\ stream_active' = FALSE
    /\ UNCHANGED <<now, startup, actuator, hub, clients, decider, capture>>

Next ==
    \/ Tick
    \/ \E rms \in RmsValues, status \in BOOLEAN, d \in 0..1 : Callback(rms, status, d)
    \/ \E t \in DOMAIN thread_pc : PlayBeep(t)
    \/ \E fails \in BOOLEAN : EmitRmsUpdate(fails)
    \/ \E fails \in BOOLEAN : EmitAlarm(fails)
    \/ EmitTimeout
    \/ \E c \in Clients : Connect(c)
    \/ \E c \in Clients : Disconnect(c)
    \/ Stop

Spec == Init /\ [][Next]_vars

\* play_beep and emit_data share no variable: the alert path (capture, decider,
\* actuator, shutdown) and the distribution path (capture, queue, emit_data,
\* clients) are also checked each on its own.
NextAlert ==
    \/ Tick
    \/ \E rms \in RmsValues, status \in BOOLEAN, d \in 0..1 : Callback(rms, status, d)
    \/ \E t \in DOMAIN thread_pc : PlayBeep(t)
    \/ Stop

SpecAlert == Init /\ [][NextAlert]_vars

NextHub ==
    \/ \E rms \in RmsValues, status \in BOOLEAN, d \in 0..1 : Callback(rms, status, d)
    \/ \E fails \in BOOLEAN : EmitRmsUpdate(fails)
    \/ \E fails \in BOOLEAN : EmitAlarm(fails)
    \/ EmitTimeout
    \/ \E c \in Clients : Connect(c)
    \/ \E c \in Clients : Disconnect(c)

SpecHub == Init /\ [][NextHub]_vars

\* The operating system runs every started thread: a play_beep thread that
\* can take a step eventually takes one.
FairAlert == SpecAlert /\ WF_vars(\E t \in DOMAIN thread_pc : PlayBeep(t))

\* emit_data is a background thread that loops for ever: whenever it can take
\* a sample or emit the alarm of the one it holds, it eventually does.
NextQueue ==
    \/ \E rms \in RmsValues, status \in BOOLEAN, d \in 0..1 : Callback(rms, status, d)
    \/ \E fails \in BOOLEAN : EmitRmsUpdate(fails)
    \/ \E fails \in BOOLEAN : EmitAlarm(fails)
    \/ EmitTimeout

FairHub ==
    /\ Init /\ [][NextQueue]_vars
    /\ WF_vars(\E fails \in BOOLEAN : EmitRmsUpdate(fails))
    /\ WF_vars(\E fails \in BOOLEAN : EmitAlarm(fails))

\* Scenario: ScenarioBlocks blocks of loudness 0.10, one every BLOCK_SECONDS,
\* the first at StartTime; the clock does not move inside callback.
ScenCallback ==
    /\ blocks < ScenarioBlocks
    /\ now = StartTime + blocks * BLOCK_SECONDS
    /\ CallbackBody(ScenarioRms, FALSE, 0)

ScenTick ==
    /\ blocks < ScenarioBlocks
    /\ now < StartTime + blocks * BLOCK_SECONDS
    /\ now' = now + BLOCK_SECONDS
    /\ UNCHANGED <<stream_active, startup, actuator, hub, clients, decider, capture>>

\* select_device on every device list of up to MaxDevices devices, every
\* DEVICE_INDEX from None and -1 to MaxDevices, and every default input
\* PortAudio can report (a position of the list, or -1 for none).
DeviceLists ==
    UNION {[1..n -> {0, 1}] : n \in 0..MaxDevices}

InitSelect ==
    /\ devices \in DeviceLists
    /\ device_index \in {<<>>} \cup {<<i>> : i \in -1..MaxDevices}
    /\ default_input \in -1..(Len(devices) - 1)
    /\ selected_device = Pending
    /\ stream_active = FALSE
    /\ now = StartTime
    /\ last_beep_time = 0
    /\ beep_playing = FALSE
    /\ thread_pc = <<>>
    /\ tone = <<>>
    /\ data_queue = <<>>
    /\ emit_pc = "get"
    /\ data = NoData
    /\ subscribers = {}
    /\ received = [c \in Clients |-> <<>>]
    /\ blocks = 0
    /\ alerts = <<>>
    /\ emitted = <<>>
    /\ status_seen = FALSE
    /\ reg_published = [c \in Clients |-> 0]
    /\ reg_emitted = [c \in Clients |-> 0]

SpecSelect == InitSelect /\ [][SelectDevice]_vars

\* Scenario: every block is below the threshold. play_beep and the alarm
\* emit are left out of the steps: C15_QuietNoAlarm shows neither can run.
QuietCallback(rms, status, d) ==
    /\ rms < THRESHOLD
    /\ Callback(rms, status, d)

NextQuiet ==
    \/ Tick
    \/ \E rms \in RmsValues, status \in BOOLEAN, d \in 0..1 : QuietCallback(rms, status, d)
    \/ \E fails \in BOOLEAN : EmitRmsUpdate(fails)
    \/ EmitTimeout
    \/ \E c \in Clients : Connect(c)
    \/ \E c \in Clients : Disconnect(c)
    \/ Stop

SpecQuiet == Init /\ [][NextQuiet]_vars

NextScenario ==
    \/ ScenCallback
    \/ ScenTick
    \/ \E t \in DOMAIN thread_pc : PlayBeep(t)

SpecScenario == Init /\ [][NextScenario]_vars

\* ------------------------------------------------------------------ claims
AlertBlocks == {alerts[i].block : i \in DOMAIN alerts}
Playing == {t \in DOMAIN thread_pc : thread_pc[t] = "tone"}
AllAlarm == \A i \in DOMAIN data_queue : data_queue[i].alarm
Drops(t) ==
    /\ thread_pc[t] = "check"
    /\ beep_playing
    /\ thread_pc'[t] # "check"

\* C1: any two alert triggers (last_beep_time set, play_beep thread started)
\* are more than COOLDOWN seconds apart, however many loud blocks lie between.
C1_TriggersApart ==
    \A i, j \in DOMAIN alerts :
        i < j => alerts[j].time - alerts[i].time > COOLDOWN

\* two triggers, and a loud block between them that did not trigger
C1_Witness ==
    /\ Len(alerts) >= 2
    /\ \E i \in DOMAIN data_queue :
          /\ data_queue[i].alarm
          /\ alerts[1].block < data_queue[i].id
          /\ data_queue[i].id < alerts[2].block

\* C2: the alarm flag of every sample callback puts on data_queue is true
\* exactly when its rms is strictly above THRESHOLD, triggered or not.
C2_AlarmFlag ==
    \A i \in DOMAIN data_queue :
        data_queue[i].alarm <=> (data_queue[i].rms > THRESHOLD)

\* a sample at the threshold, and a loud sample inside the cooldown
C2_Witness ==
    /\ \E i \in DOMAIN data_queue : data_queue[i].rms = THRESHOLD
    /\ \E i \in DOMAIN data_queue :
          data_queue[i].alarm /\ data_queue[i].id \notin AlertBlocks

\* C3: at most one play_beep thread is inside the three-tone loop at a time.
C3_SingleFlight == Cardinality(Playing) <= 1

\* C4: whenever beep_playing is true it eventually returns to false, also
\* when sd.play / sd.wait raises.
C4_BusyCleared == beep_playing ~> ~beep_playing

\* a sequence that was cut short by an error, with the flag back to false
C4_Witness ==
    /\ ~beep_playing
    /\ \E t \in DOMAIN thread_pc : thread_pc[t] = "done" /\ tone[t] < TONES

\* C5: a play_beep call made while beep_playing is true returns at once: it
\* starts no alert sequence and leaves beep_playing true and every other
\* thread where it is.
C5_DroppedCallNoEffect ==
    [][\A t \in DOMAIN thread_pc :
          Drops(t) =>
             /\ thread_pc'[t] = "returned"
             /\ beep_playing'
             /\ tone' = tone
             /\ \A u \in DOMAIN thread_pc : u # t => thread_pc'[u] = thread_pc[u]]_vars

\* a call was dropped while another thread's sequence is in progress
C5_Witness ==
    /\ beep_playing
    /\ \E t \in DOMAIN thread_pc : thread_pc[t] = "returned"
    /\ Playing # {}

\* C6 as stated: in the scenario the alerts are at blocks 1 and 3, not at
\* block 2, and every sample has alarm = true.
C6_AlertsAt1And3 ==
    blocks >= 3 =>
        /\ 1 \in AlertBlocks
        /\ 3 \in AlertBlocks
        /\ 2 \notin AlertBlocks
        /\ AllAlarm

\* C6 amended: in the scenario the alerts are at blocks 1 and 4 (block 3
\* arrives exactly COOLDOWN after the first trigger, which is not more than
\* COOLDOWN), not at blocks 2 and 3, one sample is queued per block and every
\* sample has alarm = true.
C6_AlertsAt1And4 ==
    /\ blocks >= 1 => 1 \in AlertBlocks
    /\ blocks >= 4 => 4 \in AlertBlocks
    /\ 2 \notin AlertBlocks
    /\ 3 \notin AlertBlocks
    /\ Len(data_queue) = blocks
    /\ AllAlarm

C6_Witness ==
    /\ blocks = ScenarioBlocks
    /\ Len(data_queue) = ScenarioBlocks
    /\ 4 \in AlertBlocks

\* C7: emit_data emits the rms_update events in the order the samples were
\* put on data_queue, none twice.
C7_EmitOrder ==
    LET u == RmsUpdates(emitted)
    IN  \A i, j \in DOMAIN u : i < j => u[i].id < u[j].id

\* two samples emitted, the later one queued while the first was waiting
C7_Witness ==
    /\ Len(RmsUpdates(emitted)) >= 2
    /\ data_queue # <<>>

\* C8: the number of samples waiting in data_queue stays under a bound that
\* does not depend on how many blocks the run has: here, under MaxBlocks.
C8_QueueBounded == Len(data_queue) < MaxBlocks

\* C9: once callback was called with a non-empty status no block is processed.
C9_StopsOnStatus == [][status_seen => blocks' = blocks]_vars

\* C10 as stated: a client receives only samples put on data_queue after it
\* connected.
C10_OnlyPublishedAfter ==
    \A c \in subscribers : \A i \in DOMAIN received[c] :
        received[c][i].id > reg_published[c]

\* C10 amended: a client receives the rms_update only of samples whose
\* rms_update had not been emitted when it connected.
C10_OnlyEmittedAfter ==
    \A c \in subscribers : \A i \in DOMAIN received[c] :
        received[c][i].event = "rms_update" => received[c][i].id > reg_emitted[c]

\* a client that connected after a sample was emitted and then got a sample
\* that was waiting in data_queue when it connected
C10_Witness ==
    \E c \in subscribers :
        /\ reg_emitted[c] >= 1
        /\ \E i \in DOMAIN received[c] :
              /\ received[c][i].event = "rms_update"
              /\ received[c][i].id <= reg_published[c]

\* C11: every block callback handles puts exactly one sample on data_queue,
\* with the block's number, its rms and the alarm flag of that rms, whether
\* or not the block triggers an alert.
C11_OneSamplePerBlock ==
    [][blocks' # blocks =>
          /\ blocks' = blocks + 1
          /\ \E rms \in RmsValues :
                /\ data_queue' = Append(data_queue,
                       [id |-> blocks', rms |-> rms, alarm |-> rms > THRESHOLD])
                /\ alerts' # alerts => rms > THRESHOLD]_vars

\* a block that triggered and a block that did not, one sample for each
C11_Witness ==
    /\ Len(alerts) = 1
    /\ blocks >= 2
    /\ Len(data_queue) = blocks
    /\ \A i \in DOMAIN data_queue : data_queue[i].id = i

\* C13: while an alert sequence is in progress (beep_playing true, a thread
\* in the tone loop) callback can process the next block and queue its sample.
C13_CallbackNotDelayed ==
    (beep_playing /\ Playing # {} /\ stream_active /\ blocks < MaxBlocks) =>
        ENABLED (\E rms \in RmsValues, status \in BOOLEAN : Callback(rms, status, 0))

\* a block was handled after the trigger whose sequence is still playing
C13_Witness ==
    /\ beep_playing
    /\ \E t \in Playing : tone[t] >= 1 /\ blocks > alerts[t].block

\* C16: callback changes last_beep_time only for a block above THRESHOLD that
\* arrives more than COOLDOWN after last_beep_time, and then to the current
\* time; every other block, and every other step, leaves it unchanged.
C16_LastBeepTimeFrame ==
    [][IF blocks' # blocks
       THEN LET s == data_queue'[Len(data_queue')]
            IN  IF s.rms > THRESHOLD /\ now - last_beep_time > COOLDOWN
                THEN last_beep_time' = now'
                ELSE last_beep_time' = last_beep_time
       ELSE last_beep_time' = last_beep_time]_vars

\* one trigger, then a loud block inside the cooldown and a quiet block
C16_Witness ==
    /\ Len(alerts) = 1
    /\ last_beep_time = alerts[1].time
    /\ \E i \in DOMAIN data_queue :
          data_queue[i].alarm /\ data_queue[i].id > alerts[1].block
    /\ \E i \in DOMAIN data_queue :
          ~data_queue[i].alarm /\ data_queue[i].id > alerts[1].block

\* C17: a trigger whose play_beep call is dropped has still moved
\* last_beep_time: the thread played no tone, last_beep_time is at or after
\* the trigger's time, and every later trigger is more than COOLDOWN after it.
C17_DroppedTriggerUsesCooldown ==
    \A t \in DOMAIN thread_pc :
        thread_pc[t] = "returned" =>
            /\ tone[t] = 0
            /\ last_beep_time >= alerts[t].time
            /\ \A j \in DOMAIN alerts :
                  j > t => alerts[j].time > alerts[t].time + COOLDOWN
            /\ now - alerts[t].time <= COOLDOWN => Len(alerts) = t

\* the last trigger was dropped and a loud block after it did not trigger
C17_Witness ==
    \E t \in DOMAIN thread_pc :
        /\ thread_pc[t] = "returned"
        /\ Len(alerts) = t
        /\ \E i \in DOMAIN data_queue :
              data_queue[i].alarm /\ data_queue[i].id > alerts[t].block

\* samples taken from data_queue whose rms_update was not emitted
FailedUpdates == blocks - Len(data_queue) - Len(RmsUpdates(emitted))
Waiting(k) == \E i \in DOMAIN data_queue : data_queue[i].id = k

\* C12: an error raised while emit_data emits does not stop the loop: every
\* sample waiting in data_queue after a failure is eventually taken from it
\* and handed to socketio.emit.
C12_LoopSurvivesError ==
    \A k \in 1..MaxBlocks :
        (FailedUpdates >= 1 /\ Waiting(k)) ~> (~Waiting(k) /\ emit_pc # "dead")

\* an rms_update failed and the rms_update of a later sample was emitted
C12_Witness ==
    /\ FailedUpdates >= 1
    /\ LET u == RmsUpdates(emitted)
       IN  \E i \in DOMAIN u : u[i].id > i

\* C18: an alarm event is emitted only for a sample above the threshold and
\* only right after the rms_update of the same sample; a sample whose
\* rms_update failed gets no alarm event and does not come back: no sample
\* is emitted twice and data_queue holds only samples not yet taken.
C18_AlarmAfterUpdate ==
    /\ \A i \in DOMAIN emitted :
          emitted[i].event = "alarm" =>
             /\ emitted[i].rms > THRESHOLD
             /\ i > 1
             /\ emitted[i - 1].event = "rms_update"
             /\ emitted[i - 1].id = emitted[i].id
    /\ \A i, j \in DOMAIN emitted :
          (i < j /\ emitted[i].event = emitted[j].event) => emitted[i].id < emitted[j].id
    /\ \A i \in DOMAIN data_queue : data_queue[i].id > MaxId(emitted)
    /\ emit_pc = "alarm" =>
          /\ data.alarm
          /\ emitted # <<>>
          /\ emitted[Len(emitted)] = [event |-> "rms_update", id |-> data.id, rms |-> data.rms]

\* the rms_update of a loud sample failed, and a later sample got its alarm
C18_Witness ==
    /\ emitted # <<>>
    /\ emitted[1].id > 1
    /\ \E i \in DOMAIN emitted : emitted[i].event = "alarm"
    /\ FailedUpdates >= 1

\* C15: when every block is below THRESHOLD no alert is triggered (no
\* play_beep thread exists or can run, beep_playing stays false), every
\* sample has alarm = false and emit_data emits, and can emit, no alarm event.
C15_QuietNoAlarm ==
    /\ alerts = <<>>
    /\ last_beep_time = 0
    /\ thread_pc = <<>>
    /\ ~beep_playing
    /\ ~ENABLED (\E t \in DOMAIN thread_pc : PlayBeep(t))
    /\ \A i \in DOMAIN data_queue : ~data_queue[i].alarm
    /\ \A i \in DOMAIN emitted : emitted[i].event # "alarm"
    /\ \A c \in Clients : \A i \in DOMAIN received[c] : received[c][i].event # "alarm"
    /\ ~ENABLED (\E fails \in BOOLEAN : EmitAlarm(fails))

\* quiet blocks were handled, emitted and received by a client
C15_Witness ==
    /\ blocks >= 2
    /\ Len(emitted) >= 2
    /\ \E c \in subscribers : received[c] # <<>>

\* C14: select_device returns a position of the device list whose device has
\* input channels, or raises ValueError; nothing else.
C14_SelectsInputDevice ==
    /\ selected_device.kind \in {"pending", "return", "ValueError"}
    /\ selected_device.kind = "return" =>
          /\ selected_device.index \in 0..(Len(devices) - 1)
          /\ devices[selected_device.index + 1] > 0
====
